---- MODULE Spec2Model ----
(***************************************************************************)
(* A model of the read-later agent's content store (modules/storage.py)    *)
(* and of the scheduler's pattern analysis (modules/scheduler.py).         *)
(*                                                                         *)
(* The store is one SQLite file.  Every Storage method opens its own       *)
(* connection (_get_connection), which commits when the with-block ends    *)
(* and rolls back when it raises.  SQLite lets one connection at a time    *)
(* hold the write lock; a second writer waits (timeout 30 s).  A writer    *)
(* that waits for another caller's short transaction is modelled as a      *)
(* disabled action; a writer that waits for a lock its own caller holds    *)
(* can never get it, and the statement raises "database is locked".        *)
(*                                                                         *)
(* Timestamps are ISO texts in the source.  The model keeps their day and  *)
(* hour fields: isoformat writes the fields, fromisoformat checks and      *)
(* reads them, and texts compare field by field as the strings do.         *)
(***************************************************************************)
EXTENDS Integers, Sequences, FiniteSets, TLC

(***************************************************************************)
(* Bounds of the model.                                                    *)
(***************************************************************************)
MaxArticleId == 2
MaxClock == 1
MaxHourLog == 2
MaxRankLog == 6
MaxMixedLog == 4
MaxExtra == 3
MaxQueue == 3
MaxOverflow == 2
MaxBatchStore == 4
ManyArticles == 404
MaxDeliveryLog == 3
MaxSessionLog == 1

Procs == {1, 2}
NoProc == 0
(* URLs are numbered. *)
URLs == {1, 2}

(* Python None / SQL NULL for an article id; rowids start at 1. *)
NoId == 0

(* SQL NULL in a timestamp column. *)
NullTs == [day |-> 0 - 1, hour |-> 0 - 1]

VARIABLES
    articles,     \* committed rows of table articles
    events,       \* committed rows of table reading_stats, in rowid order
    article_seq,  \* sqlite_sequence of articles (AUTOINCREMENT)
    tx,           \* the open write transaction: its owner and its view
    clock,        \* the wall clock, in hours since a Monday 00:00
    pc,           \* per caller: where it is in its Storage call
    call,         \* per caller: the call it is in
    ret,          \* per caller: what its last call returned
    savedId,      \* per URL: the id the last successful save returned
    pattern,      \* the result of the last analyze_reading_patterns call
    reply         \* what the last call of a Scheduler operation returned

vars == <<articles, events, article_seq, tx, clock, pc, call, ret, savedId, pattern,
          reply>>

storeVars == <<articles, events, article_seq, tx>>

(***************************************************************************)
(* datetime                                                                *)
(***************************************************************************)
HoursPerDay == 24
DaysPerWeek == 7

(* datetime.now().isoformat(): the text of the clock's reading. *)
isoformat(t) == [day |-> t \div HoursPerDay, hour |-> t % HoursPerDay]

(* datetime.fromisoformat: raises ValueError unless the fields are in range. *)
fromisoformat_ok(ts) == ts.day >= 0 /\ ts.hour \in 0..(HoursPerDay - 1)

(* .hour and .weekday() of a parsed timestamp (day 0 is a Monday). *)
hour_of(ts) == ts.hour

weekday_of(ts) == ts.day % DaysPerWeek

(* Comparison of two timestamp texts, as SQLite compares TEXT. *)
TsLess(a, b) == a.day < b.day \/ (a.day = b.day /\ a.hour < b.hour)

(***************************************************************************)
(* Transactions (_get_connection)                                          *)
(***************************************************************************)
NoTx == [owner |-> NoProc, articles |-> {}, events |-> <<>>, article_seq |-> 0]

LockFree == tx.owner = NoProc

Begin(p) == [owner |-> p, articles |-> articles, events |-> events,
             article_seq |-> article_seq]

(* The database after a with-block raised: conn.rollback() drops the       *)
(* transaction's writes.                                                   *)
RollbackCommitsMutant(db, t) == [articles |-> t.articles, events |-> t.events,
                                 article_seq |-> t.article_seq]

Rollback(db, t) == db

(* The database after the with-block ended: conn.commit(). *)
Commit(db, t) == [articles |-> t.articles, events |-> t.events,
                  article_seq |-> t.article_seq]

Committed == [articles |-> articles, events |-> events, article_seq |-> article_seq]

(***************************************************************************)
(* Rows                                                                    *)
(***************************************************************************)
RowsByUrl(rows, u) == {a \in rows : a.url = u}

RowsById(rows, id) == {a \in rows : a.id = id}

TheRow(rows) == CHOOSE a \in rows : TRUE

(* INSERT INTO articles: status and category take their column defaults. *)
DefaultCategory == "Uncategorized"

NewArticle(id, u, now) ==
    [id |-> id, url |-> u, status |-> "unread", saved_at |-> isoformat(now),
     read_at |-> NullTs, category |-> DefaultCategory]

(* article_data['category'] as the message handler sets it before it calls *)
(* save_article (message_handler.py, lines 80-83): the label the           *)
(* classifier gave.  The INSERT of save_article does not name the column.  *)
DataCategory == "Tech"

NewEvent(id, type, now) ==
    [article_id |-> id, event_type |-> type, timestamp |-> isoformat(now)]

(* SELECT id FROM articles WHERE url = ? *)
SelectMissesMutant(rows, u) == {}

SelectByUrl(rows, u) == RowsByUrl(rows, u)

(* UPDATE articles SET status = 'read', read_at = ? WHERE id = ? *)
UpdateReadNoStampMutant(rows, id, now) ==
    {IF a.id = id THEN [a EXCEPT !.status = "read"] ELSE a : a \in rows}

UpdateRead(rows, id, now) ==
    {IF a.id = id THEN [a EXCEPT !.status = "read", !.read_at = isoformat(now)]
     ELSE a : a \in rows}

(* _log_event: INSERT INTO reading_stats through a connection of its own.  *)
(* The INSERT needs the write lock; when the caller's own connection holds *)
(* it the statement raises after the timeout and the except clause         *)
(* swallows the error, so nothing is written.                              *)
log_event(evs, t, id, type, now) ==
    IF t.owner = NoProc THEN Append(evs, NewEvent(id, type, now)) ELSE evs

CountEvents(evs, id, type) ==
    Cardinality({i \in 1..Len(evs) : evs[i].article_id = id /\ evs[i].event_type = type})

(***************************************************************************)
(* Callers                                                                 *)
(***************************************************************************)
NoCall == [op |-> "none", url |-> 0, id |-> NoId, known |-> NoId, reads |-> 0,
           raced |-> FALSE]

NoRet == [id |-> NoId, ok |-> FALSE, err |-> "none", rows |-> 0, saved |-> 0,
          reads |-> 0]

(* A call returns: the caller's registers, with what the caller can observe *)
(* of the committed store at that moment.                                   *)
Done(p, c, r) ==
    /\ pc' = [pc EXCEPT ![p] = "done"]
    /\ call' = [call EXCEPT ![p] = c]
    /\ ret' = [ret EXCEPT ![p] = r]

(* A row is deleted: a later save of its URL is no longer a repeated save. *)
Forget(gone) ==
    /\ savedId' = [u \in URLs |-> IF savedId[u] \in gone THEN NoId ELSE savedId[u]]

ForgetCalls(c, gone) ==
    [q \in Procs |-> IF c[q].known \in gone THEN [c[q] EXCEPT !.known = NoId] ELSE c[q]]

(***************************************************************************)
(* Storage.save_article                                                    *)
(***************************************************************************)
(* The callers inside a save_article that found no row for its URL. *)
InSave == {q \in Procs : pc[q] \in {"checked", "inserted", "logged"}}

(* SELECT id FROM articles WHERE url = ?; an existing row is returned at   *)
(* once (lines 136-142).  AUTOINCREMENT never runs out in the source; the  *)
(* model stops starting new rows at MaxArticleId.                          *)
SaveSelect(p, u) ==
    /\ pc[p] = "idle"
    /\ LET existing == SelectByUrl(articles, u)
           c == [op |-> "save", url |-> u, id |-> NoId, known |-> savedId[u],
                 reads |-> 0, raced |-> FALSE]
           rivals == {q \in Procs \ {p} : pc[q] = "checked" /\ call[q].url = u}
       IN  IF existing # {}
           THEN /\ Done(p, c, [NoRet EXCEPT !.id = TheRow(existing).id,
                                   !.rows = Cardinality(RowsByUrl(articles, u)),
                                   !.saved = CountEvents(events, TheRow(existing).id, "saved")])
                /\ savedId' = [savedId EXCEPT ![u] = TheRow(existing).id]
           ELSE /\ article_seq + Cardinality(InSave) < MaxArticleId
                /\ pc' = [pc EXCEPT ![p] = "checked"]
                /\ call' = [q \in Procs |->
                              IF q = p THEN [c EXCEPT !.raced = rivals # {}]
                              ELSE IF q \in rivals THEN [call[q] EXCEPT !.raced = TRUE]
                              ELSE call[q]]
                /\ UNCHANGED <<ret, savedId>>
    /\ UNCHANGED <<storeVars, clock, pattern, reply>>

(* INSERT INTO articles (lines 145-163).  The statement takes the write    *)
(* lock.  url is UNIQUE: when another caller has committed the URL since   *)
(* the SELECT, sqlite3.IntegrityError is raised, the connection rolls back *)
(* and save_article returns None (lines 174-176).                          *)
SaveInsertArticle(p) ==
    /\ pc[p] = "checked"
    /\ LockFree
    /\ LET u == call[p].url
       IN  IF RowsByUrl(articles, u) # {}
           THEN /\ Done(p, call[p], [NoRet EXCEPT !.err = "integrity",
                                   !.rows = Cardinality(RowsByUrl(articles, u))])
                /\ UNCHANGED tx
           ELSE /\ tx' = [Begin(p) EXCEPT
                            !.articles = articles \cup {NewArticle(article_seq + 1, u, clock)},
                            !.article_seq = article_seq + 1]
                /\ pc' = [pc EXCEPT ![p] = "inserted"]
                /\ call' = [call EXCEPT ![p].id = article_seq + 1]
                /\ UNCHANGED ret
    /\ UNCHANGED <<articles, events, article_seq, clock, savedId, pattern, reply>>

(* INSERT INTO reading_stats, in the same transaction (lines 166-170). *)
SaveInsertEvent(p) ==
    /\ pc[p] = "inserted"
    /\ tx.owner = p
    /\ tx' = [tx EXCEPT !.events = Append(tx.events, NewEvent(call[p].id, "saved", clock))]
    /\ pc' = [pc EXCEPT ![p] = "logged"]
    /\ UNCHANGED <<articles, events, article_seq, clock, call, ret, savedId, pattern, reply>>

(* return article_id; the with-block ends and commits (lines 172, 47). *)
SaveCommit(p) ==
    /\ pc[p] = "logged"
    /\ tx.owner = p
    /\ LET db == Commit(Committed, tx)
       IN  /\ articles' = db.articles
           /\ events' = db.events
           /\ article_seq' = db.article_seq
           /\ Done(p, call[p], [NoRet EXCEPT !.id = call[p].id,
                        !.rows = Cardinality(RowsByUrl(db.articles, call[p].url)),
                        !.saved = CountEvents(db.events, call[p].id, "saved")])
    /\ tx' = NoTx
    /\ savedId' = [savedId EXCEPT ![call[p].url] = call[p].id]
    /\ UNCHANGED <<clock, pattern, reply>>

(* The store fails under a statement of save_article or under its commit:  *)
(* the with-block raises, the connection rolls back (lines 48-51) and      *)
(* save_article returns None (lines 177-179).                              *)
SaveFault(p) ==
    /\ pc[p] \in {"checked", "inserted", "logged"}
    /\ LET mine == tx.owner = p
           db == IF mine THEN Rollback(Committed, tx) ELSE Committed
       IN  /\ articles' = db.articles
           /\ events' = db.events
           /\ article_seq' = db.article_seq
           /\ tx' = IF mine THEN NoTx ELSE tx
           /\ Done(p, call[p], [NoRet EXCEPT !.err = pc[p],
                        !.rows = Cardinality(RowsByUrl(db.articles, call[p].url))])
    /\ UNCHANGED <<clock, savedId, pattern, reply>>

(***************************************************************************)
(* Storage.mark_as_read                                                    *)
(***************************************************************************)
(* UPDATE articles SET status = 'read', read_at = ? WHERE id = ?           *)
(* (lines 292-298).  No row matched: return False (line 304), and the      *)
(* with-block commits nothing.                                             *)
MarkUpdate(p, id) ==
    /\ pc[p] = "idle"
    /\ LockFree
    /\ LET c == [op |-> "mark", url |-> 0, id |-> id, known |-> NoId,
                 reads |-> CountEvents(events, id, "read"), raced |-> FALSE]
       IN  IF RowsById(articles, id) = {}
           THEN /\ Done(p, c, NoRet)
                /\ UNCHANGED tx
           ELSE /\ tx' = [Begin(p) EXCEPT !.articles = UpdateRead(articles, id, clock)]
                /\ pc' = [pc EXCEPT ![p] = "updated"]
                /\ call' = [call EXCEPT ![p] = c]
                /\ UNCHANGED ret
    /\ UNCHANGED <<articles, events, article_seq, clock, savedId, pattern, reply>>

(* rowcount > 0: self._log_event(article_id, 'read') (line 302), called    *)
(* inside the with-block, while the UPDATE is not yet committed.           *)
MarkLogEvent(p) ==
    /\ pc[p] = "updated"
    /\ tx.owner = p
    /\ events' = log_event(events, tx, call[p].id, "read", clock)
    /\ pc' = [pc EXCEPT ![p] = "evlogged"]
    /\ UNCHANGED <<articles, article_seq, tx, clock, call, ret, savedId, pattern, reply>>

(* return True (line 303); the with-block ends and commits the UPDATE. *)
MarkCommit(p) ==
    /\ pc[p] = "evlogged"
    /\ tx.owner = p
    /\ articles' = tx.articles
    /\ tx' = NoTx
    /\ Done(p, call[p], [NoRet EXCEPT !.ok = TRUE,
                 !.reads = CountEvents(events, call[p].id, "read") - call[p].reads])
    /\ UNCHANGED <<events, article_seq, clock, savedId, pattern, reply>>

(***************************************************************************)
(* Storage.delete_article, Storage.cleanup_old_articles                    *)
(***************************************************************************)
(* DELETE FROM articles WHERE id = ? (lines 350-357).  The rows of         *)
(* reading_stats stay: foreign keys are not enforced.                      *)
DeleteReleasesIdMutant(p, id) ==
    /\ pc[p] = "idle"
    /\ LockFree
    /\ LET gone == RowsById(articles, id)
       IN  /\ articles' = articles \ gone
           /\ article_seq' = Cardinality({a \in articles \ gone : a.id < id})
           /\ pc' = [pc EXCEPT ![p] = "done"]
           /\ call' = [ForgetCalls(call, {id}) EXCEPT
                         ![p] = [NoCall EXCEPT !.op = "delete", !.id = id]]
           /\ ret' = [ret EXCEPT ![p] = [NoRet EXCEPT !.ok = gone # {}]]
           /\ Forget({id})
    /\ UNCHANGED <<events, tx, clock, pattern, reply>>

Delete(p, id) ==
    /\ pc[p] = "idle"
    /\ LockFree
    /\ LET gone == RowsById(articles, id)
       IN  /\ articles' = articles \ gone
           /\ pc' = [pc EXCEPT ![p] = "done"]
           /\ call' = [ForgetCalls(call, {id}) EXCEPT
                         ![p] = [NoCall EXCEPT !.op = "delete", !.id = id]]
           /\ ret' = [ret EXCEPT ![p] = [NoRet EXCEPT !.ok = gone # {}]]
           /\ Forget({id})
    /\ UNCHANGED <<events, article_seq, tx, clock, pattern, reply>>

CleanupDays == {0, 1}

(* DELETE FROM articles WHERE status = 'read' AND read_at < cutoff         *)
(* (lines 543-555).                                                        *)
Cleanup(p, days) ==
    /\ pc[p] = "idle"
    /\ LockFree
    /\ LET cutoff_iso == isoformat(clock - days * HoursPerDay)
           gone == {a \in articles : a.status = "read" /\ a.read_at # NullTs
                                     /\ TsLess(a.read_at, cutoff_iso)}
           ids == {a.id : a \in gone}
       IN  /\ articles' = articles \ gone
           /\ pc' = [pc EXCEPT ![p] = "done"]
           /\ call' = [ForgetCalls(call, ids) EXCEPT ![p] = [NoCall EXCEPT !.op = "cleanup"]]
           /\ ret' = [ret EXCEPT ![p] = [NoRet EXCEPT !.rows = Cardinality(gone)]]
           /\ Forget(ids)
    /\ UNCHANGED <<events, article_seq, tx, clock, pattern, reply>>

(***************************************************************************)
(* Storage.update_article_category                                         *)
(***************************************************************************)
(* UPDATE articles SET category = ? WHERE id = ? (lines 323-327). *)
SetCategoryResetsStatusMutant(rows, id, category) ==
    {IF a.id = id THEN [a EXCEPT !.category = category, !.status = "unread"]
     ELSE a : a \in rows}

SetCategory(rows, id, category) ==
    {IF a.id = id THEN [a EXCEPT !.category = category] ELSE a : a \in rows}

(* The labels a caller may give. *)
Categories == {DataCategory, DefaultCategory}

(* One UPDATE in a with-block of its own, committed when the block ends    *)
(* (lines 320-333); rowcount tells whether a row matched.                  *)
UpdateCategory(p, id, category) ==
    /\ pc[p] = "idle"
    /\ LockFree
    /\ articles' = SetCategory(articles, id, category)
    /\ pc' = [pc EXCEPT ![p] = "done"]
    /\ call' = [call EXCEPT ![p] = [NoCall EXCEPT !.op = "category", !.id = id]]
    /\ ret' = [ret EXCEPT ![p] = [NoRet EXCEPT !.ok = RowsById(articles, id) # {}]]
    /\ UNCHANGED <<events, article_seq, tx, clock, savedId, pattern, reply>>

(* The caller goes on to its next call. *)
Return(p) ==
    /\ pc[p] = "done"
    /\ pc' = [pc EXCEPT ![p] = "idle"]
    /\ call' = [call EXCEPT ![p] = NoCall]
    /\ ret' = [ret EXCEPT ![p] = NoRet]
    /\ UNCHANGED <<storeVars, clock, savedId, pattern, reply>>

Tick ==
    /\ clock < MaxClock
    /\ clock' = clock + 1
    /\ UNCHANGED <<storeVars, pc, call, ret, savedId, pattern, reply>>

(***************************************************************************)
(* The store under concurrent callers                                      *)
(***************************************************************************)
NoPattern == <<>>

NoReply == <<>>

Init ==
    /\ articles = {}
    /\ events = <<>>
    /\ article_seq = 0
    /\ tx = NoTx
    /\ clock = 0
    /\ pc = [p \in Procs |-> "idle"]
    /\ call = [p \in Procs |-> NoCall]
    /\ ret = [p \in Procs |-> NoRet]
    /\ savedId = [u \in URLs |-> NoId]
    /\ pattern = NoPattern
    /\ reply = NoReply

Next ==
    \/ \E p \in Procs, u \in URLs : SaveSelect(p, u)
    \/ \E p \in Procs : SaveInsertArticle(p)
    \/ \E p \in Procs : SaveInsertEvent(p)
    \/ \E p \in Procs : SaveCommit(p)
    \/ \E p \in Procs, id \in 1..MaxArticleId : MarkUpdate(p, id)
    \/ \E p \in Procs : MarkLogEvent(p)
    \/ \E p \in Procs : MarkCommit(p)
    \/ \E p \in Procs, id \in 1..MaxArticleId : Delete(p, id)
    \/ \E p \in Procs, days \in CleanupDays : Cleanup(p, days)
    \/ \E p \in Procs : Return(p)
    \/ Tick

Spec == Init /\ [][Next]_vars

(* The same store when a statement or the commit of save_article may fail. *)
NextFault ==
    \/ Next
    \/ \E p \in Procs : SaveFault(p)

SpecFault == Init /\ [][NextFault]_vars

(* The store under the calls of one caller, who also re-categorizes        *)
(* articles: every sequence of save, mark-read, category-update, delete    *)
(* and cleanup calls.                                                      *)
Caller == CHOOSE p \in Procs : \A q \in Procs : p <= q

NextCategory ==
    \/ \E u \in URLs : SaveSelect(Caller, u)
    \/ SaveInsertArticle(Caller)
    \/ SaveInsertEvent(Caller)
    \/ SaveCommit(Caller)
    \/ \E id \in 1..MaxArticleId : MarkUpdate(Caller, id)
    \/ MarkLogEvent(Caller)
    \/ MarkCommit(Caller)
    \/ \E id \in 1..MaxArticleId, category \in Categories :
          UpdateCategory(Caller, id, category)
    \/ \E id \in 1..MaxArticleId : Delete(Caller, id)
    \/ \E days \in CleanupDays : Cleanup(Caller, days)
    \/ Return(Caller)
    \/ Tick

SpecCategory == Init /\ [][NextCategory]_vars

(***************************************************************************)
(* Storage.get_recent_activity                                             *)
(***************************************************************************)
Min(a, b) == IF a < b THEN a ELSE b

(* reading_stats rs JOIN articles a ON rs.article_id = a.id: the events of *)
(* rows that still exist, in rowid order.                                  *)
JoinKeepsAllMutant(rows, evs) == evs

JoinArticles(rows, evs) ==
    SelectSeq(evs, LAMBDA e : \E a \in rows : a.id = e.article_id)

(* ORDER BY rs.timestamp DESC.  The texts carry microseconds in the        *)
(* source; events of the same day and hour are ordered by rowid, their     *)
(* order in time under a clock that does not run backwards.  So an event   *)
(* is listed behind the events with a later timestamp and behind those of  *)
(* its own day and hour that have a larger rowid.                          *)
Place(evs) ==
    [i \in 1..Len(evs) |->
        1 + Cardinality({j \in 1..Len(evs) :
                \/ TsLess(evs[i].timestamp, evs[j].timestamp)
                \/ (evs[j].timestamp = evs[i].timestamp /\ j > i)})]

(* The one-element sets bind a value that is then computed once. *)
Arrange(evs) ==
    CHOOSE sorted \in {[k \in 1..Len(evs) |-> evs[CHOOSE i \in 1..Len(evs) : place[i] = k]] :
                          place \in {Place(evs)}} : TRUE

OrderByTimestampDesc(evs) == CHOOSE sorted \in {Arrange(list) : list \in {evs}} : TRUE

(* SELECT ... ORDER BY rs.timestamp DESC LIMIT ? (lines 522-530). *)
get_recent_activity(rows, evs, limit) ==
    CHOOSE page \in {SubSeq(sorted, 1, Min(limit, Len(sorted))) :
                        sorted \in {OrderByTimestampDesc(JoinArticles(rows, evs))}} : TRUE

(***************************************************************************)
(* Scheduler.analyze_reading_patterns                                      *)
(***************************************************************************)
DEFAULT_DELIVERY_HOURS == <<9, 12, 18, 21>>

(* limit=100 of the call in line 45. *)
ActivityLimit == 100

TopHours == 5

TopDays == 3

(* The keys of Counter(items), in the order of their first appearance. *)
CounterKeys(items) ==
    LET first == SelectSeq([i \in 1..Len(items) |-> i],
                           LAMBDA i : \A j \in 1..(i - 1) : items[j] # items[i])
    IN  [k \in 1..Len(first) |-> items[first[k]]]

CounterCount(items, x) == Cardinality({i \in 1..Len(items) : items[i] = x})

(* sorted(..., key=count, reverse=True) is stable: a key goes behind every *)
(* key already placed whose count is not smaller.                          *)
InsertByCountAscendingMutant(sorted, x, items) ==
    LET ahead == Cardinality({k \in 1..Len(sorted) :
                     CounterCount(items, sorted[k]) <= CounterCount(items, x)})
    IN  SubSeq(sorted, 1, ahead) \o <<x>> \o SubSeq(sorted, ahead + 1, Len(sorted))

InsertByCount(sorted, x, items) ==
    LET ahead == Cardinality({k \in 1..Len(sorted) :
                     CounterCount(items, sorted[k]) >= CounterCount(items, x)})
    IN  SubSeq(sorted, 1, ahead) \o <<x>> \o SubSeq(sorted, ahead + 1, Len(sorted))

RECURSIVE SortKeysFrom(_, _, _, _)
SortKeysFrom(keys, k, sorted, items) ==
    IF k > Len(keys) THEN sorted
    ELSE SortKeysFrom(keys, k + 1, InsertByCount(sorted, keys[k], items), items)

SortedByCount(items) == SortKeysFrom(CounterKeys(items), 1, <<>>, items)

(* Counter(items).most_common(n) *)
most_common_last_first_mutant(items, n) ==
    LET s == SortedByCount([i \in 1..Len(items) |-> items[Len(items) + 1 - i]])
    IN  SubSeq(s, 1, Min(n, Len(s)))

most_common(items, n) ==
    LET s == SortedByCount(items)
    IN  SubSeq(s, 1, Min(n, Len(s)))

(* time_categories (lines 104-109), in the order of the dict. *)
time_categories ==
    << [category |-> "morning", start |-> 6, end |-> 11],
       [category |-> "afternoon", start |-> 12, end |-> 17],
       [category |-> "evening", start |-> 18, end |-> 22],
       [category |-> "night", start |-> 23, end |-> 5] >>

(* The test of lines 115-120 for one category and one hour. *)
category_matches_overlap_mutant(c, hour) ==
    IF c.category = "night" THEN hour >= 22 \/ hour <= 5
    ELSE c.start <= hour /\ hour <= c.end

category_matches(c, hour) ==
    IF c.category = "night" THEN hour >= 23 \/ hour <= 5
    ELSE c.start <= hour /\ hour <= c.end

(* The categories counted for one hour, in the order of the inner loop. *)
CategoriesOf(hour) ==
    LET hit == SelectSeq(time_categories, LAMBDA c : category_matches(c, hour))
    IN  [k \in 1..Len(hit) |-> hit[k].category]

(* The increments of category_counts, in the order the loops make them. *)
RECURSIVE CategoryIncrements(_)
CategoryIncrements(hours) ==
    IF hours = <<>> THEN <<>>
    ELSE CategoriesOf(Head(hours)) \o CategoryIncrements(Tail(hours))

(* category_counts[category] after the loops (lines 111-120). *)
category_counts(hours, category) == CounterCount(CategoryIncrements(hours), category)

(* sorted(category_counts.items(), key=count, reverse=True), the counts    *)
(* dropped (lines 123-127); a key of category_counts has a count > 0.      *)
categorize_reading_times(hours) == SortedByCount(CategoryIncrements(hours))

(* _get_default_patterns (lines 136-142). *)
default_patterns_has_data_mutant ==
    [preferred_hours |-> DEFAULT_DELIVERY_HOURS,
     preferred_days |-> [i \in 1..DaysPerWeek |-> i - 1],
     reading_times |-> <<"morning", "evening">>,
     total_reads |-> 0,
     has_data |-> TRUE]

get_default_patterns ==
    [preferred_hours |-> DEFAULT_DELIVERY_HOURS,
     preferred_days |-> [i \in 1..DaysPerWeek |-> i - 1],
     reading_times |-> <<"morning", "evening">>,
     total_reads |-> 0,
     has_data |-> FALSE]

(* The events the loop of lines 61-68 keeps: fromisoformat raises on the   *)
(* others and the except clause continues with the next event.             *)
parsed_stops_at_first_error_mutant(read_events) ==
    LET bad == {i \in 1..Len(read_events) : ~fromisoformat_ok(read_events[i].timestamp)}
    IN  IF bad = {} THEN read_events
        ELSE SubSeq(read_events, 1, (CHOOSE i \in bad : \A j \in bad : i <= j) - 1)

parsed(read_events) ==
    SelectSeq(read_events, LAMBDA e : fromisoformat_ok(e.timestamp))

analyze_reading_patterns(activity) ==
    LET read_events == SelectSeq(activity, LAMBDA a : a.event_type = "read")
        kept == parsed(read_events)
        hours == [i \in 1..Len(kept) |-> hour_of(kept[i].timestamp)]
        days_of_week == [i \in 1..Len(kept) |-> weekday_of(kept[i].timestamp)]
        top_hours == most_common(hours, TopHours)
        top_days == most_common(days_of_week, TopDays)
    IN  IF activity = <<>> THEN get_default_patterns
        ELSE IF read_events = <<>> THEN get_default_patterns
        ELSE [preferred_hours |-> IF top_hours # <<>> THEN top_hours
                                  ELSE DEFAULT_DELIVERY_HOURS,
              preferred_days |-> top_days,
              reading_times |-> categorize_reading_times(hours),
              total_reads |-> Len(read_events),
              has_data |-> TRUE]

(***************************************************************************)
(* The analysis over the stores it may find                                *)
(*                                                                         *)
(* Storage() opens the database file that is there (CREATE TABLE IF NOT    *)
(* EXISTS), so the analysis starts from whatever rows the file holds.      *)
(* The stores below hold the logs the analysis has to tell apart.          *)
(***************************************************************************)
ReadAt(id, d, h) ==
    [article_id |-> id, event_type |-> "read", timestamp |-> [day |-> d, hour |-> h]]

SavedAt(id, d, h) ==
    [article_id |-> id, event_type |-> "saved", timestamp |-> [day |-> d, hour |-> h]]

StoredRow(id) ==
    [id |-> id, url |-> id, status |-> "unread", saved_at |-> [day |-> 0, hour |-> 0],
     read_at |-> NullTs]

Logs(alphabet, n) == UNION {[1..k -> alphabet] : k \in 0..n}

(* Every hour of the day, in every order of two. *)
HourLogs == Logs({ReadAt(1, 0, h) : h \in 0..(HoursPerDay - 1)}, MaxHourLog)

(* Six hours on five weekdays; a log names them in this order, so that the *)
(* order of first appearance is not the order of the numbers.              *)
RankEvents ==
    << ReadAt(1, 4, 18), ReadAt(1, 0, 2), ReadAt(1, 9, 23), ReadAt(1, 1, 9),
       ReadAt(1, 3, 14), ReadAt(1, 2, 11) >>

RankLogs ==
    LET n == Len(RankEvents)
        shapes == {s \in UNION {[1..k -> 1..n] : k \in 0..MaxRankLog} :
                     \A i \in 1..Len(s) :
                        \/ s[i] = 1
                        \/ \E j \in 1..(i - 1) : s[j] >= s[i] - 1}
    IN  {[i \in 1..Len(s) |-> RankEvents[s[i]]] : s \in shapes}

(* Read events that parse, read events whose hour field is out of range,   *)
(* and save events, in every order.                                        *)
MixedLogs ==
    Logs({ReadAt(1, 0, 9), ReadAt(1, 1, 20), ReadAt(1, 0, 25), SavedAt(1, 0, 0)},
         MaxMixedLog)

(* One read event followed by the save events of k later articles. *)
LongLog(k) == <<SavedAt(1, 0, 0), ReadAt(1, 0, 7)>> \o [i \in 1..k |-> SavedAt(i + 1, 0, 8)]

StoreInputs ==
    {[articles |-> {StoredRow(1)}, events |-> l] :
        l \in HourLogs \cup RankLogs \cup MixedLogs}
    \cup
    {[articles |-> {StoredRow(i) : i \in first..(k + 1)}, events |-> LongLog(k)] :
        first \in {1, 2}, k \in 0..(ActivityLimit + MaxExtra)}

InitPattern ==
    /\ \E in \in StoreInputs :
          /\ articles = in.articles
          /\ events = in.events
    /\ article_seq = Len(events)
    /\ tx = NoTx
    /\ clock = 0
    /\ pc = [p \in Procs |-> "idle"]
    /\ call = [p \in Procs |-> NoCall]
    /\ ret = [p \in Procs |-> NoRet]
    /\ savedId = [u \in URLs |-> NoId]
    /\ pattern = NoPattern
    /\ reply = NoReply

(* One call of analyze_reading_patterns (lines 45-92). *)
Analyze ==
    /\ pattern = NoPattern
    /\ pattern' = <<analyze_reading_patterns(
                       get_recent_activity(articles, events, ActivityLimit))>>
    /\ UNCHANGED <<storeVars, clock, pc, call, ret, savedId, reply>>

NextPattern == Analyze

SpecPattern == InitPattern /\ [][NextPattern]_vars

(***************************************************************************)
(* Storage.get_reading_queue, Storage.get_statistics                       *)
(*                                                                         *)
(* The Scheduler reads more columns of an article row than the store's own *)
(* operations above: reading_time (INTEGER NOT NULL), category, author and *)
(* description.  A description is kept as its length.                      *)
(***************************************************************************)
(* Python None / SQL NULL in a text column and in a description. *)
None == "None"

NoText == 0 - 1

Max(a, b) == IF a > b THEN a ELSE b

(* seq[:n] *)
Slice(seq, n) ==
    IF n >= 0 THEN SubSeq(seq, 1, Min(n, Len(seq)))
    ELSE SubSeq(seq, 1, Max(0, Len(seq) + n))

(* ORDER BY saved_at DESC: b is listed ahead of a.  Rows saved in the same *)
(* hour are ordered by rowid, as the events are.                           *)
SavedLater(b, a) ==
    \/ TsLess(a.saved_at, b.saved_at)
    \/ (a.saved_at = b.saved_at /\ b.id > a.id)

OrderBySavedAtDesc(rows) ==
    CHOOSE sorted \in {[k \in 1..Cardinality(rows) |-> CHOOSE a \in rows : place[a] = k] :
                          place \in {[a \in rows |->
                                        1 + Cardinality({b \in rows : SavedLater(b, a)})]}} :
        TRUE

(* SELECT * FROM articles WHERE status = ? ORDER BY saved_at DESC LIMIT ?  *)
(* (lines 232-239).                                                        *)
get_reading_queue(rows, limit, status) ==
    CHOOSE page \in {SubSeq(sorted, 1, Min(limit, Len(sorted))) :
                        sorted \in {OrderBySavedAtDesc({a \in rows : a.status = status})}} :
        TRUE

CountStatus(rows, status) == Cardinality({a \in rows : a.status = status})

CountCategory(rows, c) == Cardinality({a \in rows : a.category = c})

(* SELECT category, COUNT ... GROUP BY category ORDER BY count DESC       *)
(* LIMIT 1 (lines 398-406).  SQL leaves the order of categories with the   *)
(* same count open: any of them may be the row returned.  None for an      *)
(* empty table.                                                            *)
TopCategories(rows) ==
    IF rows = {} THEN {None}
    ELSE {c \in {a.category : a \in rows} :
             \A d \in {a.category : a \in rows} :
                CountCategory(rows, d) <= CountCategory(rows, c)}

(* round(num / den * 100, 1), in tenths: Python rounds a half to the even  *)
(* digit.                                                                  *)
RoundedPercent(num, den) ==
    LET q == (1000 * num) \div den
        r == (1000 * num) % den
    IN  IF 2 * r < den THEN q
        ELSE IF 2 * r > den THEN q + 1
        ELSE IF q % 2 = 0 THEN q ELSE q + 1

(* The dictionary of lines 411-420, with the fields the Scheduler reads;   *)
(* read_percentage in tenths of a percent.  top is the category the last   *)
(* query returned.                                                         *)
get_statistics(rows, top) ==
    [total_articles |-> Cardinality(rows),
     unread |-> CountStatus(rows, "unread"),
     read |-> CountStatus(rows, "read"),
     top_category |-> top,
     read_percentage |-> IF Cardinality(rows) > 0
                         THEN RoundedPercent(CountStatus(rows, "read"), Cardinality(rows))
                         ELSE 0]

(***************************************************************************)
(* Scheduler._calculate_priority_score                                     *)
(***************************************************************************)
(* (datetime.now() - saved_at).days: whole days, rounded down. *)
days_old(now, saved_at) ==
    (now - (saved_at.day * HoursPerDay + saved_at.hour)) \div HoursPerDay

(* Factor 1 (lines 228-234): fromisoformat raises on a malformed text and  *)
(* the except clause adds nothing.                                         *)
recency_score_by_age(now, saved_at) ==
    IF fromisoformat_ok(saved_at) THEN Min(10, Max(0, days_old(now, saved_at))) ELSE 0

recency_score(now, saved_at) ==
    IF fromisoformat_ok(saved_at) THEN Max(0, 10 - days_old(now, saved_at)) ELSE 0

(* Factor 2 (lines 237-243). *)
reading_time_score_strict(reading_time) ==
    IF reading_time < 3 THEN 5
    ELSE IF reading_time < 5 THEN 3
    ELSE IF reading_time > 15 THEN 0 - 2
    ELSE 0

reading_time_score(reading_time) ==
    IF reading_time <= 3 THEN 5
    ELSE IF reading_time <= 5 THEN 3
    ELSE IF reading_time >= 15 THEN 0 - 2
    ELSE 0

(* A text as a condition: None and the empty text are false. *)
Truthy(text) == text # None /\ text # ""

(* Factor 3 (lines 246-249). *)
category_score(article, top_category) ==
    IF Truthy(top_category) /\ article.category = top_category THEN 5 ELSE 0

(* Factor 4 (lines 252-253). *)
author_score(article) == IF Truthy(article.author) THEN 2 ELSE 0

(* Factor 5 (lines 256-258): len(description or ""). *)
description_len(article) ==
    IF article.description = NoText THEN 0 ELSE article.description

description_score(article) == IF description_len(article) > 100 THEN 2 ELSE 0

calculate_priority_score(article, now, top_category) ==
    recency_score(now, article.saved_at)
    + reading_time_score(article.reading_time)
    + category_score(article, top_category)
    + author_score(article)
    + description_score(article)

(***************************************************************************)
(* Scheduler.prioritize_queue                                              *)
(***************************************************************************)
(* get_reading_queue(limit=50) of line 195. *)
QueueLimit == 50

(* scored_articles of lines 201-204, in the order of the store's list. *)
ScoreAll(queue, now, top_category) ==
    [i \in 1..Len(queue) |->
        [score |-> calculate_priority_score(queue[i], now, top_category),
         article |-> queue[i]]]

(* list.sort(key=score, reverse=True) is stable: an entry goes behind the  *)
(* entries with a higher score and behind those with its score that stood  *)
(* ahead of it.                                                            *)
SortedByScoreTiesReversed(scored) ==
    CHOOSE sorted \in {[k \in 1..Len(scored) |-> scored[CHOOSE i \in 1..Len(scored) : place[i] = k]] :
                          place \in {[i \in 1..Len(scored) |->
                              1 + Cardinality({j \in 1..Len(scored) :
                                      \/ scored[j].score > scored[i].score
                                      \/ (scored[j].score = scored[i].score /\ j > i)})]}} :
        TRUE

SortedByScore(scored) ==
    CHOOSE sorted \in {[k \in 1..Len(scored) |-> scored[CHOOSE i \in 1..Len(scored) : place[i] = k]] :
                          place \in {[i \in 1..Len(scored) |->
                              1 + Cardinality({j \in 1..Len(scored) :
                                      \/ scored[j].score > scored[i].score
                                      \/ (scored[j].score = scored[i].score /\ j < i)})]}} :
        TRUE

(* scored_articles after the sort of line 207. *)
scored_articles(rows, now, top_category) ==
    CHOOSE sorted \in {SortedByScore(scored) :
                          scored \in {ScoreAll(get_reading_queue(rows, QueueLimit, "unread"),
                                               now, top_category)}} :
        TRUE

(* Lines 195-213; an empty queue returns the empty list at line 198, and   *)
(* so does the slice of an empty list.                                     *)
prioritize_queue(rows, now, top_category, limit) ==
    CHOOSE prioritized \in {[i \in 1..Len(top) |-> top[i].article] :
                               top \in {Slice(scored_articles(rows, now, top_category), limit)}} :
        TRUE

(***************************************************************************)
(* Scheduler.suggest_reading_session                                       *)
(***************************************************************************)
(* prioritize_queue(limit=20) of line 368. *)
SessionLimit == 20

(* The test of line 376. *)
FitsBeforeAdding(time_used, reading_time, available_minutes) ==
    time_used <= available_minutes

Fits(time_used, reading_time, available_minutes) ==
    time_used + reading_time <= available_minutes

(* The loop of lines 374-378 from the i-th article on, and the same loop   *)
(* leaving at the first article that does not fit.                         *)
RECURSIVE SelectUntilMisfit(_, _, _, _, _)
SelectUntilMisfit(queue, i, selected, time_used, available_minutes) ==
    IF i > Len(queue) THEN selected
    ELSE IF Fits(time_used, queue[i].reading_time, available_minutes)
         THEN SelectUntilMisfit(queue, i + 1, Append(selected, queue[i]),
                                time_used + queue[i].reading_time, available_minutes)
         ELSE selected

RECURSIVE SelectFrom(_, _, _, _, _)
SelectFrom(queue, i, selected, time_used, available_minutes) ==
    IF i > Len(queue) THEN selected
    ELSE IF Fits(time_used, queue[i].reading_time, available_minutes)
         THEN SelectFrom(queue, i + 1, Append(selected, queue[i]),
                         time_used + queue[i].reading_time, available_minutes)
         ELSE SelectFrom(queue, i + 1, selected, time_used, available_minutes)

(* Lines 367-382, for the prioritized queue of line 368. *)
select_articles(queue, available_minutes) ==
    CHOOSE selected \in {SelectFrom(q, 1, <<>>, 0, available_minutes) : q \in {queue}} : TRUE

suggest_reading_session(rows, now, top_category, available_minutes) ==
    select_articles(prioritize_queue(rows, now, top_category, SessionLimit),
                    available_minutes)

(***************************************************************************)
(* Scheduler.create_digest                                                 *)
(***************************************************************************)
RECURSIVE TotalTime(_)
TotalTime(items) ==
    IF items = <<>> THEN 0 ELSE Head(items).reading_time + TotalTime(Tail(items))

(* by_category[category] after the loop of lines 289-291. *)
FirstOfCategory(items, category) ==
    LET group == SelectSeq(items, LAMBDA a : a.category = category)
    IN  SubSeq(group, 1, Min(1, Len(group)))

GroupOf(items, category) == SelectSeq(items, LAMBDA a : a.category = category)

(* The digest of an empty queue (lines 277-283). *)
EmptyDigestIsNone(now) == [none |-> TRUE]

EmptyDigest(now) ==
    [items |-> <<>>,
     total_reading_time |-> 0,
     categories |-> <<>>,
     created_at |-> isoformat(now)]

(* Lines 285-306; the keys of by_category are in the order of their first  *)
(* insertion.                                                              *)
digest_of(items, now) ==
    IF items = <<>> THEN EmptyDigest(now)
    ELSE [items |-> items,
          total_reading_time |-> TotalTime(items),
          categories |-> CounterKeys([i \in 1..Len(items) |-> items[i].category]),
          by_category |-> [c \in {items[i].category : i \in 1..Len(items)} |->
                              GroupOf(items, c)],
          created_at |-> isoformat(now)]

create_digest(rows, now, top_category, num_items) ==
    CHOOSE digest \in {digest_of(items, now) :
                          items \in {prioritize_queue(rows, now, top_category, num_items)}} :
        TRUE

(***************************************************************************)
(* Scheduler.get_optimal_batch_size                                        *)
(***************************************************************************)
(* Lines 426-438; stats.read_percentage is in tenths of a percent. *)
batch_size_above_thresholds(stats) ==
    IF stats.read_percentage > 800 THEN 7
    ELSE IF stats.read_percentage > 500 THEN 5
    ELSE IF stats.read_percentage > 200 THEN 3
    ELSE 2

get_optimal_batch_size(stats) ==
    IF stats.read_percentage >= 800 THEN 7
    ELSE IF stats.read_percentage >= 500 THEN 5
    ELSE IF stats.read_percentage >= 200 THEN 3
    ELSE 2

(***************************************************************************)
(* Scheduler.get_next_delivery_time                                        *)
(***************************************************************************)
(* datetime.now(): the clock's hours and the minutes it also shows. *)
Now(t, minute, second) ==
    [day |-> t \div HoursPerDay, hour |-> t % HoursPerDay, minute |-> minute,
     second |-> second]

(* The hours the loop of lines 159-162 can stop at. *)
HoursFromNow(preferred_hours, current_hour) ==
    {preferred_hours[i] : i \in {j \in 1..Len(preferred_hours) :
                                    preferred_hours[j] >= current_hour}}

HoursAfterNow(preferred_hours, current_hour) ==
    {preferred_hours[i] : i \in {j \in 1..Len(preferred_hours) :
                                    preferred_hours[j] > current_hour}}

(* Lines 152-180: the loop over sorted(preferred_hours) stops at the       *)
(* smallest hour after the current one; replace() clears the fields below  *)
(* the hour.                                                               *)
next_delivery_time(preferred_hours, now) ==
    LET later == HoursAfterNow(preferred_hours, now.hour)
    IN  IF later # {}
        THEN [day |-> now.day,
              hour |-> CHOOSE h \in later : \A g \in later : h <= g,
              minute |-> 0, second |-> 0]
        ELSE [day |-> now.day + 1, hour |-> preferred_hours[1], minute |-> 0, second |-> 0]

(***************************************************************************)
(* The Scheduler's operations over the stores they may find                *)
(***************************************************************************)
Row(id, status, saved_at, reading_time, category, author, description) ==
    [id |-> id, url |-> id, status |-> status, saved_at |-> saved_at,
     read_at |-> IF status = "read" THEN saved_at ELSE NullTs,
     reading_time |-> reading_time, category |-> category, author |-> author,
     description |-> description]

At(day, hour) == [day |-> day, hour |-> hour]

(* The moment of the calls: 10 o'clock on the 13th day. *)
PlannerNow == 12 * HoursPerDay + 10

(* Saved 1 hour, 23 hours, 24 hours, 9 days, 10 days and 12 days before    *)
(* PlannerNow, and a text that does not parse.                             *)
SavedTimes ==
    {At(12, 9), At(11, 11), At(11, 10), At(3, 10), At(2, 10), At(0, 10), At(12, 25)}

(* Reading times are at least 1 (content_ingestion.py, line 60). *)
ReadingTimes == {3, 4, 5, 6, 14, 15}

(* Read articles of one category beside the article that is scored. *)
Background(n) == {Row(100 + i, "read", At(0, 0), 7, "Tech", None, NoText) : i \in 1..n}

(* One unread article of every kind the score tells apart. *)
ScoreStores ==
    {{Row(1, "unread", t, r, c, a, d)} \cup Background(n) :
        t \in SavedTimes, r \in ReadingTimes, c \in {"Tech", "Science"},
        a \in {None, "", "Ann"}, d \in {NoText, 100, 101}, n \in 0..2}

(* Two unread articles that differ in the time they were saved. *)
PairStores ==
    {{Row(1, "unread", t1, r, "Tech", a, NoText), Row(2, "unread", t2, r, "Tech", a, NoText)} :
        t1 \in SavedTimes, t2 \in SavedTimes, r \in {3, 15}, a \in {None, "Ann"}}

(* The kinds of article a queue is made of. *)
Kinds ==
    << [status |-> "unread", saved_at |-> At(12, 9), reading_time |-> 15,
        category |-> "Tech", author |-> "Ann", description |-> 101],
       [status |-> "unread", saved_at |-> At(12, 9), reading_time |-> 3,
        category |-> "Science", author |-> None, description |-> NoText],
       [status |-> "unread", saved_at |-> At(0, 10), reading_time |-> 6,
        category |-> "Tech", author |-> "", description |-> 100],
       [status |-> "read", saved_at |-> At(12, 9), reading_time |-> 4,
        category |-> "Tech", author |-> "Ann", description |-> 0],
       [status |-> "unread", saved_at |-> At(3, 10), reading_time |-> 5,
        category |-> "Science", author |-> "Ann", description |-> 101] >>

OfKind(id, k) ==
    Row(id, Kinds[k].status, Kinds[k].saved_at, Kinds[k].reading_time,
        Kinds[k].category, Kinds[k].author, Kinds[k].description)

(* The articles 1..n, of every kind in every order. *)
QueueStores ==
    {{OfKind(i, ks[i]) : i \in 1..Len(ks)} :
        ks \in UNION {[1..n -> 1..Len(Kinds)] : n \in 0..MaxQueue}}

(* More unread articles than get_reading_queue fetches: the first saved is *)
(* the shortest read that fits a session last, the second has the highest  *)
(* score.                                                                  *)
LongStores ==
    {{Row(1, "unread", At(2, 10), 4, "Science", None, NoText),
      Row(2, "unread", At(12, 8), 3, "Tech", "Ann", 101)}
     \cup {Row(i, "unread", At(12, 9), 6, "Science", None, NoText) : i \in 3..n} :
        n \in (QueueLimit - 1)..(QueueLimit + MaxOverflow)}

(* total articles of which read are read. *)
CountedStore(total, read) ==
    {Row(i, IF i <= read THEN "read" ELSE "unread", At(12, 9), 6, "Tech", None, NoText) :
        i \in 1..total}

BatchStores ==
    {CountedStore(total, read) : total \in 0..MaxBatchStore, read \in 0..MaxBatchStore}
    \cup {CountedStore(ManyArticles, read) :
            read \in {(4 * ManyArticles) \div 5 - 1, (4 * ManyArticles) \div 5,
                      (4 * ManyArticles) \div 5 + 1}}

PlannerStores == ScoreStores \cup PairStores \cup QueueStores \cup LongStores \cup BatchStores

InitPlanner ==
    /\ articles \in PlannerStores
    /\ events = <<>>
    /\ article_seq = Cardinality(articles)
    /\ tx = NoTx
    /\ clock = PlannerNow
    /\ pc = [p \in Procs |-> "idle"]
    /\ call = [p \in Procs |-> NoCall]
    /\ ret = [p \in Procs |-> NoRet]
    /\ savedId = [u \in URLs |-> NoId]
    /\ pattern = NoPattern
    /\ reply = NoReply

(* A call that leaves a row in reading_stats behind. *)
ReplyLogsEventMutant(op, arg, top, scored, value) ==
    /\ reply = NoReply
    /\ reply' = <<[op |-> op, arg |-> arg, top |-> top, scored |-> scored, value |-> value]>>
    /\ events' = Append(events, NewEvent(NoId, op, clock))
    /\ UNCHANGED <<articles, article_seq, tx, clock, pc, call, ret, savedId, pattern>>

(* A call returns: the operation, its argument, the top category the store *)
(* reported to it, the scored queue it worked on, and its result.          *)
Reply(op, arg, top, scored, value) ==
    /\ reply = NoReply
    /\ reply' = <<[op |-> op, arg |-> arg, top |-> top, scored |-> scored, value |-> value]>>
    /\ UNCHANGED <<storeVars, clock, pc, call, ret, savedId, pattern>>

Limits == {0 - 1, 0, 1, 2, 3, QueueLimit + 1}

Minutes == {0 - 1, 0, 4, 9, 20}

DigestSizes == {0, 1, 2, 3}

Prioritize(limit) ==
    \E top \in TopCategories(articles) :
        Reply("prioritize", limit, top,
              Slice(scored_articles(articles, clock, top), limit),
              prioritize_queue(articles, clock, top, limit))

Suggest(available_minutes) ==
    \E top \in TopCategories(articles) :
        Reply("suggest", available_minutes, top,
              Slice(scored_articles(articles, clock, top), SessionLimit),
              suggest_reading_session(articles, clock, top, available_minutes))

Digest(num_items) ==
    \E top \in TopCategories(articles) :
        Reply("digest", num_items, top,
              Slice(scored_articles(articles, clock, top), num_items),
              create_digest(articles, clock, top, num_items))

BatchSize ==
    \E top \in TopCategories(articles) :
        Reply("batch", 0, top, <<>>, get_optimal_batch_size(get_statistics(articles, top)))

NextPlanner ==
    \/ \E limit \in Limits : Prioritize(limit)
    \/ \E available_minutes \in Minutes : Suggest(available_minutes)
    \/ \E num_items \in DigestSizes : Digest(num_items)
    \/ BatchSize

SpecPlanner == InitPlanner /\ [][NextPlanner]_vars

(***************************************************************************)
(* get_next_delivery_time over the logs and the hours of the day it may    *)
(* find                                                                    *)
(***************************************************************************)
(* Read events early in the night, in the morning and late in the evening, *)
(* in every order, so that the most frequent hour need not be the          *)
(* smallest.                                                               *)
DeliveryHours == {2, 9, 20, 23}

DeliveryLogs == Logs({ReadAt(1, 0, h) : h \in DeliveryHours}, MaxDeliveryLog)

InitDelivery ==
    /\ articles = {StoredRow(1)}
    /\ events \in DeliveryLogs
    /\ article_seq = Len(events)
    /\ tx = NoTx
    /\ clock \in 0..(HoursPerDay - 1)
    /\ pc = [p \in Procs |-> "idle"]
    /\ call = [p \in Procs |-> NoCall]
    /\ ret = [p \in Procs |-> NoRet]
    /\ savedId = [u \in URLs |-> NoId]
    /\ pattern = NoPattern
    /\ reply = NoReply

(* One call of get_next_delivery_time (lines 144-180) at minute:second of  *)
(* the clock's hour.                                                       *)
NextDelivery(minute, second) ==
    /\ reply = NoReply
    /\ \E patterns \in {analyze_reading_patterns(
                           get_recent_activity(articles, events, ActivityLimit))} :
          reply' = <<[op |-> "delivery",
                      arg |-> Now(clock, minute, second),
                      preferred_hours |-> patterns.preferred_hours,
                      value |-> next_delivery_time(patterns.preferred_hours,
                                                   Now(clock, minute, second))]>>
    /\ UNCHANGED <<storeVars, clock, pc, call, ret, savedId, pattern>>

(***************************************************************************)
(* Scheduler.get_delivery_schedule                                         *)
(***************************************************************************)
(* delivery_time > datetime.now() (line 408). *)
NotBefore(a, b) ==
    \/ a.day > b.day
    \/ a.day = b.day /\ a.hour > b.hour
    \/ a.day = b.day /\ a.hour = b.hour /\ a.minute > b.minute
    \/ a.day = b.day /\ a.hour = b.hour /\ a.minute = b.minute /\ a.second >= b.second

After(a, b) ==
    \/ a.day > b.day
    \/ a.day = b.day /\ a.hour > b.hour
    \/ a.day = b.day /\ a.hour = b.hour /\ a.minute > b.minute
    \/ a.day = b.day /\ a.hour = b.hour /\ a.minute = b.minute /\ a.second > b.second

(* preferred_hours[:2] (line 405). *)
HoursPerScheduledDay == 2

(* The entry of lines 409-414 for hour on the day-th day from now. *)
ScheduleEntry(now, day, hour) ==
    [delivery_time |-> [day |-> now.day + day, hour |-> hour, minute |-> 0, second |-> 0],
     hour |-> hour]

(* Lines 399-417: the days 0..days_ahead-1 in turn, on each the first two  *)
(* preferred hours in the order of the list; an entry is kept when its     *)
(* time is after now.                                                      *)
delivery_schedule(preferred_hours, now, days_ahead) ==
    LET top == Slice(preferred_hours, HoursPerScheduledDay)
        n == Len(top)
        all == [k \in 1..(Max(days_ahead, 0) * n) |->
                   ScheduleEntry(now, (k - 1) \div n, top[((k - 1) % n) + 1])]
    IN  SelectSeq(all, LAMBDA e : After(e.delivery_time, now))

DaysAhead == {0 - 1, 0, 1, 2, 3}

(* One call of get_delivery_schedule (lines 384-417). *)
Schedule(days_ahead, minute, second) ==
    /\ reply = NoReply
    /\ \E patterns \in {analyze_reading_patterns(
                           get_recent_activity(articles, events, ActivityLimit))} :
          reply' = <<[op |-> "schedule",
                      arg |-> Now(clock, minute, second),
                      days_ahead |-> days_ahead,
                      preferred_hours |-> patterns.preferred_hours,
                      value |-> delivery_schedule(patterns.preferred_hours,
                                                  Now(clock, minute, second),
                                                  days_ahead)]>>
    /\ UNCHANGED <<storeVars, clock, pc, call, ret, savedId, pattern>>

NextDeliveries ==
    \/ \E minute \in {0, 30}, second \in {0, 59} : NextDelivery(minute, second)
    \/ \E days_ahead \in DaysAhead, minute \in {0, 30}, second \in {0, 59} :
          Schedule(days_ahead, minute, second)

SpecDelivery == InitDelivery /\ [][NextDeliveries]_vars

(***************************************************************************)
(* The Scheduler's operations called twice                                 *)
(*                                                                         *)
(* A Scheduler holds its Storage and nothing else (__init__, lines 25-33); *)
(* its operations reach the store through get_recent_activity,             *)
(* get_reading_queue and get_statistics, which only SELECT.                *)
(***************************************************************************)
(* Read events of the first article in the morning and in the evening. *)
SessionLogs == Logs({ReadAt(1, 0, 20), ReadAt(1, 0, 9)}, MaxSessionLog)

InitSession ==
    /\ articles \in QueueStores
    /\ events \in SessionLogs
    /\ article_seq = Cardinality(articles)
    /\ tx = NoTx
    /\ clock = PlannerNow
    /\ pc = [p \in Procs |-> "idle"]
    /\ call = [p \in Procs |-> NoCall]
    /\ ret = [p \in Procs |-> NoRet]
    /\ savedId = [u \in URLs |-> NoId]
    /\ pattern = NoPattern
    /\ reply = NoReply

(* One call of analyze_reading_patterns (lines 35-92), its result kept as  *)
(* the caller's reply.                                                     *)
Patterns ==
    /\ reply = NoReply
    /\ reply' = <<[op |-> "analyze", arg |-> 0,
                   value |-> analyze_reading_patterns(
                                 get_recent_activity(articles, events, ActivityLimit))]>>
    /\ UNCHANGED <<storeVars, clock, pc, call, ret, savedId, pattern>>

(* What the operation of reply r returns when it is called once more with  *)
(* the same argument at the same reading of the clock.  SQLite answers the *)
(* same query on the same rows the same way, so the store reports the top  *)
(* category it reported before.                                            *)
CalledAgain(r) ==
    CASE r.op = "analyze" ->
            analyze_reading_patterns(get_recent_activity(articles, events, ActivityLimit))
      [] r.op = "prioritize" -> prioritize_queue(articles, clock, r.top, r.arg)
      [] r.op = "suggest" -> suggest_reading_session(articles, clock, r.top, r.arg)
      [] r.op = "digest" -> create_digest(articles, clock, r.top, r.arg)
      [] r.op = "batch" -> get_optimal_batch_size(get_statistics(articles, r.top))
      [] r.op = "delivery" ->
            next_delivery_time(
                analyze_reading_patterns(
                    get_recent_activity(articles, events, ActivityLimit)).preferred_hours,
                r.arg)
      [] r.op = "schedule" ->
            delivery_schedule(
                analyze_reading_patterns(
                    get_recent_activity(articles, events, ActivityLimit)).preferred_hours,
                r.arg, r.days_ahead)

(* The caller repeats its call. *)
Again ==
    /\ Len(reply) = 1
    /\ reply' = Append(reply, [reply[1] EXCEPT !.value = CalledAgain(reply[1])])
    /\ UNCHANGED <<storeVars, clock, pc, call, ret, savedId, pattern>>

NextSession ==
    \/ NextPlanner
    \/ NextDeliveries
    \/ Patterns
    \/ Again

SpecSession == InitSession /\ [][NextSession]_vars

(***************************************************************************)
(* The Scheduler's operations when a read of the store fails               *)
(*                                                                         *)
(* A statement that fails raises inside the with-block of the Storage      *)
(* method; _get_connection rolls back, logs and raises again (storage.py,  *)
(* lines 48-51), and the Storage read methods have no handler of their     *)
(* own.                                                                    *)
(***************************************************************************)
Raised == [raised |-> "sqlite3.Error"]

(* The Storage method an operation calls for its k-th read: the pattern    *)
(* analysis reads the activity (line 45), the batch size the statistics    *)
(* (line 426); prioritize_queue reads the queue (line 195) and then the    *)
(* statistics once for every article it scores (line 246).                 *)
SiteOfRead(op, k) ==
    IF op = "analyze" THEN "get_recent_activity"
    ELSE IF op = "batch" THEN "get_statistics"
    ELSE IF k = 1 THEN "get_reading_queue"
    ELSE "get_statistics"

ReadsOf(op, rows) ==
    IF op \in {"analyze", "batch"} THEN 1
    ELSE 1 + Len(get_reading_queue(rows, QueueLimit, "unread"))

(* The try statements of the Scheduler (lines 62-68 and 228-235) enclose   *)
(* the parsing of a timestamp and no call of the store.                    *)
CaughtStatisticsMutant(site) == site = "get_statistics"

Caught(site) == FALSE

(* What an operation returns in place of its result when an except clause  *)
(* swallows the error.                                                     *)
Degraded(op, now) ==
    CASE op = "analyze" -> get_default_patterns
      [] op = "digest" -> EmptyDigest(now)
      [] op = "batch" -> 2
      [] OTHER -> <<>>

(* One call whose k-th read of the store raises: the reads it made,        *)
(* whether the call ended by raising, and what its caller got.             *)
FailedCall(op, arg, k) ==
    /\ reply = NoReply
    /\ k \in 1..ReadsOf(op, articles)
    /\ reply' = <<[op |-> op, arg |-> arg, failed |-> k, reads |-> k,
                   raised |-> ~Caught(SiteOfRead(op, k)),
                   value |-> IF Caught(SiteOfRead(op, k)) THEN Degraded(op, clock)
                             ELSE Raised]>>
    /\ UNCHANGED <<storeVars, clock, pc, call, ret, savedId, pattern>>

NextReadFault ==
    \/ \E k \in 1..(MaxQueue + 1) : FailedCall("analyze", 0, k)
    \/ \E limit \in Limits, k \in 1..(MaxQueue + 1) : FailedCall("prioritize", limit, k)
    \/ \E available_minutes \in Minutes, k \in 1..(MaxQueue + 1) :
          FailedCall("suggest", available_minutes, k)
    \/ \E num_items \in DigestSizes, k \in 1..(MaxQueue + 1) :
          FailedCall("digest", num_items, k)
    \/ \E k \in 1..(MaxQueue + 1) : FailedCall("batch", 0, k)

SpecReadFault == InitSession /\ [][NextReadFault]_vars

(***************************************************************************)
(* Scheduler.prioritize_queue while another caller writes                  *)
(***************************************************************************)
(* The caller of the Scheduler is Caller; the other one uses the store. *)
Writer == CHOOSE p \in Procs : p # Caller

(* The stores of unread articles of two categories, every one of which    *)
(* Writer can name.                                                        *)
RaceStores ==
    {{OfKind(i, ks[i]) : i \in 1..MaxArticleId} : ks \in [1..MaxArticleId -> {1, 2}]}

(* The limits that cut the queue of such a store and that do not. *)
RaceLimits == {1, MaxArticleId}

(* What the query of lines 398-406 groups: the categories of the committed *)
(* rows, each with its count.                                              *)
CategoryCounts(rows) ==
    [c \in {a.category : a \in rows} |-> CountCategory(rows, c)]

(* Asked again while the counts are what they were, the store reports the  *)
(* top category it reported before.                                        *)
TopCategoriesNow(frame) ==
    IF frame.scored # <<>> /\ frame.seen = CategoryCounts(articles)
    THEN {frame.scored[Len(frame.scored)].top}
    ELSE TopCategories(articles)

InitRace ==
    /\ articles \in RaceStores
    /\ events = <<>>
    /\ article_seq = Cardinality(articles)
    /\ tx = NoTx
    /\ clock = PlannerNow
    /\ pc = [p \in Procs |-> "idle"]
    /\ call = [p \in Procs |-> NoCall]
    /\ ret = [p \in Procs |-> NoRet]
    /\ savedId = [u \in URLs |-> NoId]
    /\ pattern = NoPattern
    /\ reply = NoReply

(* queue = self.storage.get_reading_queue(limit=50) (line 195): one SELECT *)
(* in a connection of its own; scored_articles = [] (line 201).            *)
PrioritizeFetch(p, limit) ==
    /\ pc[p] = "idle"
    /\ reply = NoReply
    /\ pc' = [pc EXCEPT ![p] = "scoring"]
    /\ call' = [call EXCEPT ![p] =
                  [op |-> "prioritize", url |-> 0, id |-> NoId, known |-> NoId,
                   reads |-> 0, raced |-> FALSE, limit |-> limit,
                   queue |-> get_reading_queue(articles, QueueLimit, "unread"),
                   seen |-> CategoryCounts(articles), scored |-> <<>>]]
    /\ UNCHANGED <<storeVars, clock, ret, savedId, pattern, reply>>

(* One turn of the loop of lines 202-204: _calculate_priority_score of the *)
(* next fetched article, whose line 246 asks the store for its statistics  *)
(* in a new connection, so top_category (line 247) is that of the rows     *)
(* committed at this moment.                                               *)
PrioritizeScore(p) ==
    /\ pc[p] = "scoring"
    /\ Len(call[p].scored) < Len(call[p].queue)
    /\ \E top \in TopCategoriesNow(call[p]) :
          call' = [call EXCEPT ![p].seen = CategoryCounts(articles),
                               ![p].scored =
                     Append(@, [score |-> calculate_priority_score(
                                              call[p].queue[Len(call[p].scored) + 1],
                                              clock, top),
                                article |-> call[p].queue[Len(call[p].scored) + 1],
                                top |-> top])]
    /\ UNCHANGED <<storeVars, clock, pc, ret, savedId, pattern, reply>>

(* The loop is over: sort (line 207), slice (line 210), return (line 213); *)
(* an empty queue returned at line 198.  scored is the whole sorted list,  *)
(* with the top category each score was computed under.                    *)
PrioritizeReturn(p) ==
    /\ pc[p] = "scoring"
    /\ Len(call[p].scored) = Len(call[p].queue)
    /\ reply' = <<[op |-> "prioritize", arg |-> call[p].limit,
                   scored |-> SortedByScore(call[p].scored),
                   value |-> [i \in 1..Len(Slice(SortedByScore(call[p].scored), call[p].limit)) |->
                                 SortedByScore(call[p].scored)[i].article]]>>
    /\ pc' = [pc EXCEPT ![p] = "done"]
    /\ UNCHANGED <<storeVars, clock, call, ret, savedId, pattern>>

(* One call of prioritize_queue by Caller, while Writer re-categorizes,    *)
(* marks read and deletes articles through the store.                      *)
NextRace ==
    \/ \E limit \in RaceLimits : PrioritizeFetch(Caller, limit)
    \/ PrioritizeScore(Caller)
    \/ PrioritizeReturn(Caller)
    \/ \E id \in 1..MaxArticleId, category \in Categories : UpdateCategory(Writer, id, category)
    \/ \E id \in 1..MaxArticleId : MarkUpdate(Writer, id)
    \/ MarkLogEvent(Writer)
    \/ MarkCommit(Writer)
    \/ \E id \in 1..MaxArticleId : Delete(Writer, id)
    \/ \E p \in Procs : Return(p)

SpecRace == InitRace /\ [][NextRace]_vars

(***************************************************************************)
(* Properties of the store                                                 *)
(***************************************************************************)
Returned(p, op) == pc[p] = "done" /\ call[p].op = op

(* C1: a save_article of a URL that an earlier save_article returned an id *)
(* for, with no delete of that article since, returns that same id, leaves *)
(* exactly one row for the URL, and that article still has the one 'saved' *)
(* event of its creation: the repeated call added none.                    *)
C1_IdempotentSave ==
    \A p \in Procs :
        (Returned(p, "save") /\ call[p].known # NoId)
        => /\ ret[p].id = call[p].known
           /\ ret[p].rows = 1
           /\ ret[p].saved = 1

C1_Witness ==
    \E p \in Procs :
        /\ Returned(p, "save")
        /\ call[p].known # NoId
        /\ ret[p].id = call[p].known
        /\ Cardinality(articles) = 2

(* C2: when two save_article calls for one URL both ran their SELECT       *)
(* before either inserted, each of them returns the id of the one row for  *)
(* the URL: neither returns None.                                          *)
C2_RacingSavesBothGetId ==
    \A p \in Procs :
        (Returned(p, "save") /\ call[p].raced)
        => /\ ret[p].id # NoId
           /\ ret[p].rows = 1

(* C3: every step of the committed store adds an article row exactly when  *)
(* it adds that article's 'saved' event, whether save_article ends by its  *)
(* commit or by a failure under any of its statements.                     *)
C3_SaveAtomicWithEvent ==
    [][\A id \in 1..(MaxArticleId + 1) :
          (RowsById(articles', id) # {} /\ RowsById(articles, id) = {})
          <=> (CountEvents(events', id, "saved") > CountEvents(events, id, "saved"))]_vars

C3_Witness ==
    \E p \in Procs :
        /\ Returned(p, "save")
        /\ ret[p].err \in {"inserted", "logged"}
        /\ RowsById(articles, call[p].id) = {}
        /\ CountEvents(events, call[p].id, "saved") = 0
        /\ articles # {}

(* C4: a mark_as_read that returned True has left exactly one new 'read'   *)
(* event of its article in the log by the time it returned.                *)
C4_MarkReadLogsEvent ==
    \A p \in Procs :
        (Returned(p, "mark") /\ ret[p].ok) => ret[p].reads = 1

(* C5: the step in which mark_as_read returns: for an id of an existing    *)
(* article it returns True and leaves the article with status read and a   *)
(* read timestamp; for an id of no article it returns False and leaves the *)
(* articles and the event log as they were.                                *)
C5_MarkRead ==
    [][\A p \in Procs :
          (pc[p] # "done" /\ pc'[p] = "done" /\ call'[p].op = "mark")
          => LET id == call'[p].id
             IN  IF RowsById(articles, id) # {}
                 THEN /\ ret'[p].ok
                      /\ RowsById(articles', id) # {}
                      /\ \A a \in RowsById(articles', id) :
                            a.status = "read" /\ a.read_at # NullTs
                 ELSE /\ ~ret'[p].ok
                      /\ articles' = articles
                      /\ events' = events]_vars

C5_Witness ==
    /\ \E p \in Procs :
          /\ Returned(p, "mark")
          /\ ret[p].ok
          /\ \E a \in RowsById(articles, call[p].id) : a.status = "read"
    /\ \E q \in Procs :
          /\ Returned(q, "mark")
          /\ ~ret[q].ok
          /\ RowsById(articles, call[q].id) = {}

(***************************************************************************)
(* Properties of the pattern analysis                                      *)
(***************************************************************************)
Analyzed == pattern # NoPattern

Result == pattern[1]

Range(f) == {f[i] : i \in DOMAIN f}

(* The event list the analysis was given, its read events, and those whose *)
(* timestamp is a well-formed date and hour.                               *)
Fetched == get_recent_activity(articles, events, ActivityLimit)

IsRead(e) == e.event_type = "read"

WellFormed(ts) == ts.day >= 0 /\ ts.hour >= 0 /\ ts.hour <= 23

FetchedReads == SelectSeq(Fetched, IsRead)

GoodReads == SelectSeq(Fetched, LAMBDA e : IsRead(e) /\ WellFormed(e.timestamp))

HourOf(e) == e.timestamp.hour

WeekdayOf(e) == e.timestamp.day % 7

ReadHours == CHOOSE hours \in {[i \in 1..Len(good) |-> HourOf(good[i])] : good \in {GoodReads}} : TRUE

ReadDays == CHOOSE days \in {[i \in 1..Len(good) |-> WeekdayOf(good[i])] : good \in {GoodReads}} : TRUE

Occurrences(items, x) == Cardinality({i \in 1..Len(items) : items[i] = x})

FirstIndex(items, x) ==
    CHOOSE i \in 1..Len(items) : items[i] = x /\ \A j \in 1..(i - 1) : items[j] # x

(* x is ranked ahead of y: more occurrences, or as many and seen first. *)
Outranks(items, x, y) ==
    \/ Occurrences(items, x) > Occurrences(items, y)
    \/ /\ Occurrences(items, x) = Occurrences(items, y)
       /\ FirstIndex(items, x) < FirstIndex(items, y)

(* list holds the n best ranked values of items, best first. *)
IsTopRanking(list, items, n) ==
    /\ Len(list) = Min(n, Cardinality(Range(items)))
    /\ \A k \in 1..Len(list) : list[k] \in Range(items)
    /\ \A k \in 1..Len(list) : \A m \in (k + 1)..Len(list) :
          Outranks(items, list[k], list[m])
    /\ \A x \in Range(items) \ Range(list) : \A k \in 1..Len(list) :
          Outranks(items, list[k], x)

(* C6: when the event log is empty or holds no 'read' event, the analysis  *)
(* returns the default pattern: hours 9, 12, 18, 21, all seven weekdays,   *)
(* morning and evening, no reads, has_data false.                          *)
C6_DefaultPattern ==
    (Analyzed /\ \A i \in 1..Len(events) : ~IsRead(events[i]))
    => Result = [preferred_hours |-> <<9, 12, 18, 21>>,
                 preferred_days |-> <<0, 1, 2, 3, 4, 5, 6>>,
                 reading_times |-> <<"morning", "evening">>,
                 total_reads |-> 0,
                 has_data |-> FALSE]

C6_Witness ==
    /\ Analyzed
    /\ Len(events) >= 2
    /\ \A i \in 1..Len(events) : ~IsRead(events[i])
    /\ Result.preferred_hours = <<9, 12, 18, 21>>
    /\ ~Result.has_data

Buckets == {"morning", "afternoon", "evening", "night"}

ClaimedBucket(h) ==
    IF h >= 6 /\ h <= 11 THEN "morning"
    ELSE IF h >= 12 /\ h <= 17 THEN "afternoon"
    ELSE IF h >= 18 /\ h <= 22 THEN "evening"
    ELSE "night"

HoursIn(hours, b) == {i \in 1..Len(hours) : ClaimedBucket(hours[i]) = b}

RECURSIVE SumCounts(_, _)
SumCounts(hours, bs) ==
    IF bs = {} THEN 0
    ELSE LET b == CHOOSE x \in bs : TRUE
         IN  category_counts(hours, b) + SumCounts(hours, bs \ {b})

(* C8: every analysed hour is counted in exactly one bucket, 6..11         *)
(* morning, 12..17 afternoon, 18..22 evening, 23 and 0..5 night; the       *)
(* bucket counts sum to the number of hours analysed, and the buckets      *)
(* returned are those with a count.                                        *)
C8_OneBucketPerHour ==
    Analyzed =>
        \A hours \in {ReadHours} :
            /\ \A i \in 1..Len(hours) :
                  Cardinality({k \in 1..Len(time_categories) :
                      category_matches(time_categories[k], hours[i])}) = 1
            /\ \A b \in Buckets :
                  category_counts(hours, b) = Cardinality(HoursIn(hours, b))
            /\ SumCounts(hours, Buckets) = Len(hours)
            /\ Result.has_data =>
                  Range(Result.reading_times) = {b \in Buckets : HoursIn(hours, b) # {}}

C8_Witness ==
    /\ Analyzed
    /\ ReadHours = <<23, 2>>
    /\ category_counts(<<23, 2>>, "night") = 2
    /\ Result.reading_times = <<"night">>

FetchedWithoutMalformed ==
    SelectSeq(Fetched, LAMBDA e : ~IsRead(e) \/ WellFormed(e.timestamp))

Replied(op) == reply # NoReply /\ reply[1].op = op

Answer == reply[1]

(* The whole days between the time an article was saved and the clock. *)
WholeDaysSince(saved_at) ==
    CHOOSE d \in (0 - 1)..(clock \div 24 + 1) :
        /\ (saved_at.day * 24 + saved_at.hour) + d * 24 <= clock
        /\ clock < (saved_at.day * 24 + saved_at.hour) + (d + 1) * 24

RecencyTerm(a) ==
    IF WellFormed(a.saved_at)
    THEN (IF WholeDaysSince(a.saved_at) < 10 THEN 10 - WholeDaysSince(a.saved_at) ELSE 0)
    ELSE 0

ReadingTimeTerm(a) ==
    CASE a.reading_time <= 3 -> 5
      [] a.reading_time \in {4, 5} -> 3
      [] a.reading_time >= 15 -> 0 - 2
      [] OTHER -> 0

CategoryTerm(a, top) == IF a.category = top THEN 5 ELSE 0

AuthorTerm(a) == IF a.author \notin {None, ""} THEN 2 ELSE 0

DescriptionTerm(a) == IF a.description # NoText /\ a.description > 100 THEN 2 ELSE 0

(* C11: the score of every queued article is the sum of the recency term,  *)
(* the reading-time term, the category term, the author term and the       *)
(* description term, with no clamping of the total.                        *)
C11_ScoreIsSumOfTerms ==
    Replied("prioritize") =>
        \A r \in {Answer} : \A i \in 1..Len(r.scored) :
            r.scored[i].score =
                RecencyTerm(r.scored[i].article)
                + ReadingTimeTerm(r.scored[i].article)
                + CategoryTerm(r.scored[i].article, r.top)
                + AuthorTerm(r.scored[i].article)
                + DescriptionTerm(r.scored[i].article)

C11_Witness ==
    /\ Replied("prioritize")
    /\ \E i \in 1..Len(Answer.scored) :
          /\ Answer.scored[i].score = 0 - 2
          /\ Answer.scored[i].article.reading_time = 15
    /\ Answer.top = "Tech"

(* a and b are the same in every field but the time they were saved (and   *)
(* the id and URL that tell them apart).                                   *)
SameButSaved(a, b) ==
    /\ a.status = b.status
    /\ a.reading_time = b.reading_time
    /\ a.category = b.category
    /\ a.author = b.author
    /\ a.description = b.description
    /\ a.read_at = b.read_at

(* C12: of two queued articles that differ only in the time they were      *)
(* saved, scored in one call, the one saved later scores at least as much. *)
C12_LaterSavedScoresNoLess ==
    Replied("prioritize") =>
        \A r \in {Answer} : \A i \in 1..Len(r.scored) : \A j \in 1..Len(r.scored) :
            (/\ SameButSaved(r.scored[i].article, r.scored[j].article)
             /\ WellFormed(r.scored[i].article.saved_at)
             /\ WellFormed(r.scored[j].article.saved_at)
             /\ TsLess(r.scored[j].article.saved_at, r.scored[i].article.saved_at))
            => r.scored[i].score >= r.scored[j].score

C12_Witness ==
    /\ Replied("prioritize")
    /\ \E i \in 1..Len(Answer.scored) : \E j \in 1..Len(Answer.scored) :
          /\ SameButSaved(Answer.scored[i].article, Answer.scored[j].article)
          /\ TsLess(Answer.scored[j].article.saved_at, Answer.scored[i].article.saved_at)
          /\ WellFormed(Answer.scored[i].article.saved_at)
          /\ Answer.scored[i].score > Answer.scored[j].score
          /\ Answer.scored[j].score > 0

ClaimedScore(a, top) ==
    RecencyTerm(a) + ReadingTimeTerm(a) + CategoryTerm(a, top) + AuthorTerm(a)
    + DescriptionTerm(a)

Unread == {a \in articles : a.status = "unread"}

(* The store lists a ahead of b: a was saved later. *)
ListedFirst(a, b) ==
    \/ a.saved_at.day > b.saved_at.day
    \/ (a.saved_at.day = b.saved_at.day /\ a.saved_at.hour > b.saved_at.hour)
    \/ (a.saved_at = b.saved_at /\ a.id > b.id)

(* The (up to 50) most recently saved unread articles. *)
FetchedQueue ==
    CHOOSE f \in {{a \in u : Cardinality({b \in u : ListedFirst(b, a)}) < 50} :
                     u \in {Unread}} : TRUE

(* a stands ahead of b in the queue sorted by score: a higher score, or    *)
(* the same score and ahead in the store's list.                           *)
Ahead(a, b, top) ==
    \/ ClaimedScore(a, top) > ClaimedScore(b, top)
    \/ (ClaimedScore(a, top) = ClaimedScore(b, top) /\ ListedFirst(a, b))

(* list is the first n articles of queue sorted by score. *)
IsTopOfQueue(list, queue, n, top) ==
    /\ Len(list) = Min(n, Cardinality(queue))
    /\ \A i \in 1..Len(list) : list[i] \in queue
    /\ \A i \in 1..Len(list) : \A j \in (i + 1)..Len(list) : Ahead(list[i], list[j], top)
    /\ \A x \in queue \ Range(list) : \A i \in 1..Len(list) : Ahead(list[i], x, top)

(* C13: for a limit >= 0, prioritize_queue returns the first               *)
(* min(limit, n) of the n (up to 50) most recently saved unread articles   *)
(* in descending order of score, articles of equal score in the order of   *)
(* the store's list; every article returned is unread.                     *)
C13_PrioritizedQueue ==
    (Replied("prioritize") /\ Answer.arg >= 0) =>
        \A r \in {Answer}, queue \in {FetchedQueue} :
            /\ IsTopOfQueue(r.value, queue, r.arg, r.top)
            /\ \A i \in 1..Len(r.value) : r.value[i].status = "unread"

C13_Witness ==
    /\ Replied("prioritize")
    /\ Cardinality(Unread) = 52
    /\ Cardinality(FetchedQueue) = 50
    /\ Answer.arg = 51
    /\ Len(Answer.value) = 50
    /\ Answer.value[1].id = 52
    /\ Answer.value[50].id = 3

(* C14: when the store holds no unread article, prioritize_queue returns   *)
(* the empty list and create_digest returns a digest with no items, a      *)
(* total reading time of 0 and no categories, never None.                  *)
C14_EmptyQueue ==
    (reply # NoReply /\ Unread = {}) =>
        /\ Answer.op = "prioritize" => Answer.value = <<>>
        /\ Answer.op = "digest" =>
              /\ {"items", "total_reading_time", "categories"} \subseteq DOMAIN Answer.value
              /\ Answer.value.items = <<>>
              /\ Answer.value.total_reading_time = 0
              /\ Answer.value.categories = <<>>

C14_Witness ==
    /\ Replied("digest")
    /\ Unread = {}
    /\ Cardinality(articles) = 2
    /\ Answer.arg = 3
    /\ Answer.value.items = <<>>
    /\ Answer.value.total_reading_time = 0

(* The reading time of the articles of list at the places in idx. *)
RECURSIVE TimeAt(_, _)
TimeAt(list, idx) ==
    IF idx = {} THEN 0
    ELSE LET i == CHOOSE x \in idx : TRUE
         IN  list[i].reading_time + TimeAt(list, idx \ {i})

TimeOf(list) == TimeAt(list, DOMAIN list)

(* C15, as claimed: for every integer M, the reading times of the articles *)
(* suggest_reading_session(M) selects sum to at most M.                    *)
C15_WithinAnyBudget ==
    Replied("suggest") => \A r \in {Answer} : TimeOf(r.value) <= r.arg

(* C15, amended: the same for every integer M >= 0. *)
C15_WithinBudget ==
    (Replied("suggest") /\ Answer.arg >= 0) =>
        \A r \in {Answer} : TimeOf(r.value) <= r.arg

C15_Witness ==
    /\ Replied("suggest")
    /\ Answer.arg = 9
    /\ Len(Answer.value) = 2
    /\ TimeOf(Answer.value) = 9
    /\ Cardinality(Unread) = 3

(* The queue a session was chosen from, and the places of the chosen. *)
QueueOf(r) == [i \in 1..Len(r.scored) |-> r.scored[i].article]

Chosen(queue, selected) == {i \in 1..Len(queue) : queue[i] \in Range(selected)}

(* C16: suggest_reading_session walks the first 20 articles of the         *)
(* prioritized queue in order and takes an article exactly when the        *)
(* running total with it stays within the budget; it goes on after an      *)
(* article that does not fit, so no article left out fits the budget that  *)
(* remains, and the selection is in queue order.                           *)
C16_GreedyNoEarlyStop ==
    Replied("suggest") =>
        \A r \in {Answer}, fetched \in {FetchedQueue} :
            \A queue \in {QueueOf(r)} : \A chosen \in {Chosen(queue, r.value)} :
                /\ IsTopOfQueue(queue, fetched, 20, r.top)
                /\ r.value = SelectSeq(queue, LAMBDA a : a \in Range(r.value))
                /\ \A i \in 1..Len(queue) :
                      (i \in chosen) <=>
                          (TimeAt(queue, {j \in chosen : j < i}) + queue[i].reading_time
                              <= r.arg)
                /\ \A i \in (1..Len(queue)) \ chosen :
                      queue[i].reading_time > r.arg - TimeOf(r.value)

C16_Witness ==
    /\ Replied("suggest")
    /\ \E i \in 1..Len(Answer.scored) : \E j \in (i + 1)..Len(Answer.scored) :
          /\ Answer.scored[i].article \notin Range(Answer.value)
          /\ Answer.scored[j].article \in Range(Answer.value)
    /\ Len(Answer.value) = 2

(* The place of the first article of category c in items. *)
FirstOf(items, c) ==
    CHOOSE i \in 1..Len(items) :
        items[i].category = c /\ \A j \in 1..(i - 1) : items[j].category # c

CategoriesIn(items) == {items[i].category : i \in 1..Len(items)}

(* C17: create_digest(num_items) takes the first num_items articles of the *)
(* prioritized queue; by_category holds one group per category of the      *)
(* items and every item is once in the group of its category and in no     *)
(* other; categories lists the categories in the order they are first met; *)
(* total_reading_time is the sum of the items' reading times.              *)
C17_DigestGroups ==
    Replied("digest") =>
        \A r \in {Answer}, fetched \in {FetchedQueue} :
            /\ {"items", "total_reading_time", "categories"} \subseteq DOMAIN r.value
            /\ \A items \in {r.value.items}, cats \in {r.value.categories} :
                  /\ IsTopOfQueue(items, fetched, r.arg, r.top)
                  /\ r.value.total_reading_time = TimeOf(items)
                  /\ Range(cats) = CategoriesIn(items)
                  /\ \A i \in 1..Len(cats) : \A j \in (i + 1)..Len(cats) :
                        /\ cats[i] # cats[j]
                        /\ FirstOf(items, cats[i]) < FirstOf(items, cats[j])
                  /\ items # <<>> =>
                        /\ "by_category" \in DOMAIN r.value
                        /\ \A groups \in {r.value.by_category} :
                              /\ DOMAIN groups = CategoriesIn(items)
                              /\ \A c \in DOMAIN groups :
                                    /\ groups[c] # <<>>
                                    /\ \A k \in 1..Len(groups[c]) :
                                          /\ groups[c][k] \in Range(items)
                                          /\ groups[c][k].category = c
                                          /\ \A m \in 1..Len(groups[c]) :
                                                groups[c][m] = groups[c][k] => m = k
                              /\ \A i \in 1..Len(items) :
                                    items[i] \in Range(groups[items[i].category])

C17_Witness ==
    /\ Replied("digest")
    /\ "by_category" \in DOMAIN Answer.value
    /\ Len(Answer.value.items) = 3
    /\ Answer.value.items[1].category = "Tech"
    /\ Answer.value.items[2].category = "Tech"
    /\ Answer.value.items[3].category = "Science"
    /\ Answer.value.categories = <<"Tech", "Science">>
    /\ Len(Answer.value.by_category["Tech"]) = 2
    /\ Len(Answer.value.by_category["Science"]) = 1
    /\ Answer.value.total_reading_time = 33

ReadCount == Cardinality({a \in articles : a.status = "read"})

TotalCount == Cardinality(articles)

(* The batch size claimed for a read percentage of num / den percent. *)
ClaimedBatch(num, den) ==
    IF num >= 80 * den THEN 7
    ELSE IF num >= 50 * den THEN 5
    ELSE IF num >= 20 * den THEN 3
    ELSE 2

(* C18, as claimed: get_optimal_batch_size maps the read percentage        *)
(* p = read articles / all articles (0 for an empty store) to 7 if         *)
(* p >= 80, 5 if 50 <= p < 80, 3 if 20 <= p < 50 and 2 otherwise.          *)
C18_BatchOfExactPercentage ==
    Replied("batch") =>
        \A read \in {ReadCount}, total \in {TotalCount} :
            Answer.value = IF total = 0 THEN ClaimedBatch(0, 1)
                           ELSE ClaimedBatch(100 * read, total)

(* tenths is num / den percent rounded to one decimal place, in tenths of  *)
(* a percent.                                                              *)
IsRoundedToTenths(tenths, num, den) ==
    LET diff == 1000 * num - tenths * den
    IN  2 * (IF diff < 0 THEN 0 - diff ELSE diff) <= den

(* C18, amended: p is the read percentage rounded to one decimal place (0  *)
(* for an empty store); the result is one of 2, 3, 5 and 7 and does not    *)
(* decrease when p increases.                                              *)
C18_BatchOfRoundedPercentage ==
    Replied("batch") =>
        \A read \in {ReadCount}, total \in {TotalCount} :
            /\ \E tenths \in 0..1000 :
                  /\ IF total = 0 THEN tenths = 0
                     ELSE IsRoundedToTenths(tenths, read, total)
                  /\ Answer.value = ClaimedBatch(tenths, 10)
            /\ Answer.value \in {2, 3, 5, 7}
            /\ \A p \in 0..999 :
                  get_optimal_batch_size([read_percentage |-> p])
                      <= get_optimal_batch_size([read_percentage |-> p + 1])

C18_Witness ==
    /\ Replied("batch")
    /\ TotalCount > 0
    /\ 100 * ReadCount < 80 * TotalCount
    /\ Answer.value = 7

(* The moment a is later than the moment b. *)
LaterThan(a, b) ==
    \/ a.day > b.day
    \/ a.day = b.day /\ a.hour > b.hour
    \/ a.day = b.day /\ a.hour = b.hour /\ a.minute > b.minute
    \/ a.day = b.day /\ a.hour = b.hour /\ a.minute = b.minute /\ a.second > b.second

(* C19: whatever the time and the event log, get_next_delivery_time        *)
(* returns a moment strictly after the current time, with minute and       *)
(* second zero.                                                            *)
C19_NextDeliveryIsLater ==
    Replied("delivery") =>
        /\ LaterThan(Answer.value, Answer.arg)
        /\ Answer.value.minute = 0
        /\ Answer.value.second = 0

(* The call comes at 20:30:59 with 20 among the preferred hours. *)
C19_Witness ==
    /\ Replied("delivery")
    /\ Answer.arg.hour = 20
    /\ Answer.arg.minute = 30
    /\ Answer.arg.second = 59
    /\ 20 \in Range(Answer.preferred_hours)
    /\ Answer.value.hour = 23
    /\ Answer.value.day = Answer.arg.day

Smallest(hours) == CHOOSE h \in hours : \A g \in hours : h <= g

(* C20: get_next_delivery_time picks the smallest preferred hour after the *)
(* current hour, on the current day; when no preferred hour is after the   *)
(* current hour it picks the smallest preferred hour, on the next day,     *)
(* whatever the order of preferred_hours.                                  *)
C20_SmallestPreferredHour ==
    Replied("delivery") =>
        \A r \in {Answer} :
            LET hours == Range(r.preferred_hours)
                later == {h \in hours : h > r.arg.hour}
            IN  IF later # {}
                THEN r.value.day = r.arg.day /\ r.value.hour = Smallest(later)
                ELSE r.value.day = r.arg.day + 1 /\ r.value.hour = Smallest(hours)

(* The entries of a schedule that fall on the day-th day from now. *)
EntriesOn(r, day) ==
    {i \in 1..Len(r.value) : r.value[i].delivery_time.day = r.arg.day + day}

(* The first two preferred hours. *)
TopTwo(r) == {r.preferred_hours[i] : i \in {j \in 1..Len(r.preferred_hours) : j <= 2}}

(* Every entry is strictly after now, lies on one of the days_ahead days   *)
(* from today on and at one of the first two preferred hours, and no day   *)
(* has more than 2 entries.                                                *)
ScheduleWithinDays(r) ==
    /\ \A i \in 1..Len(r.value) :
          /\ LaterThan(r.value[i].delivery_time, r.arg)
          /\ r.value[i].delivery_time.minute = 0
          /\ r.value[i].delivery_time.second = 0
          /\ r.value[i].delivery_time.hour \in TopTwo(r)
          /\ r.value[i].delivery_time.day - r.arg.day \in 0..(r.days_ahead - 1)
    /\ \A day \in 0..(r.days_ahead - 1) : Cardinality(EntriesOn(r, day)) <= 2

(* C21, as claimed: get_delivery_schedule(days_ahead) emits only entries   *)
(* strictly after now, at most 2 a day at the top-2 preferred hours, and   *)
(* every day after today within days_ahead has exactly 2 entries.          *)
C21_TwoEntriesOnLaterDays ==
    Replied("schedule") =>
        \A r \in {Answer} :
            /\ ScheduleWithinDays(r)
            /\ \A day \in 1..(r.days_ahead - 1) : Cardinality(EntriesOn(r, day)) = 2

(* C21, amended: every day after today within days_ahead has one entry for *)
(* each of the top-2 preferred hours: 2 entries when the pattern has at    *)
(* least two preferred hours, 1 when it has one.                           *)
C21_EntryPerTopHourOnLaterDays ==
    Replied("schedule") =>
        \A r \in {Answer} :
            /\ ScheduleWithinDays(r)
            /\ \A day \in 1..(r.days_ahead - 1) :
                  /\ Cardinality(EntriesOn(r, day)) = Cardinality(TopTwo(r))
                  /\ {r.value[i].delivery_time.hour : i \in EntriesOn(r, day)} = TopTwo(r)
            /\ \A i \in EntriesOn(r, 0) : \A j \in EntriesOn(r, 0) :
                  r.value[i].delivery_time = r.value[j].delivery_time => i = j

(* Today gives one entry and each of the two later days two. *)
C21_Witness ==
    /\ Replied("schedule")
    /\ Answer.days_ahead = 3
    /\ Len(Answer.preferred_hours) >= 2
    /\ Cardinality(EntriesOn(Answer, 0)) = 1
    /\ Cardinality(EntriesOn(Answer, 1)) = 2
    /\ Cardinality(EntriesOn(Answer, 2)) = 2
    /\ Len(Answer.value) = 5

ArticleIds(rows) == {a.id : a \in rows}

EventIds(evs) == {evs[i].article_id : i \in 1..Len(evs)}

(* C24: through every save, mark-read, category-update, delete and cleanup *)
(* an event is logged for an article that exists, the events logged stay   *)
(* as they are, and an article that is new in the store gets an id that no *)
(* event names and no other article has: the id of a deleted article is    *)
(* not given out again.                                                    *)
C24_EventIdsStayValid ==
    [][/\ \A i \in (Len(events) + 1)..Len(events') :
             events'[i].article_id \in ArticleIds(articles')
       /\ Len(events') >= Len(events)
       /\ \A i \in 1..Len(events) : events'[i] = events[i]
       /\ \A a \in articles' :
             a.id \notin ArticleIds(articles) => a.id \notin EventIds(events)
       /\ \A a \in articles' : \A b \in articles' : a.id = b.id => a.url = b.url
      ]_vars

(* The first article is gone, its event is still there, and the article    *)
(* saved after it was re-categorized.                                      *)
C24_Witness ==
    /\ 1 \in EventIds(events)
    /\ 1 \notin ArticleIds(articles)
    /\ \E a \in articles : a.id = 2 /\ a.category = DataCategory /\ a.status = "read"
    /\ Len(events) = 2

(* C26: an article saved with a category label in its data, read back by   *)
(* id, by URL or through the unread queue, carries that label.             *)
C26_SavedCategoryReadBack ==
    \A p \in Procs :
        (Returned(p, "save") /\ call[p].id # NoId /\ ret[p].id = call[p].id) =>
            /\ \A a \in RowsById(articles, ret[p].id) : a.category = DataCategory
            /\ \A a \in RowsByUrl(articles, call[p].url) : a.category = DataCategory
            /\ \A queue \in {get_reading_queue(articles, QueueLimit, "unread")} :
                  \A i \in 1..Len(queue) :
                     queue[i].id = ret[p].id => queue[i].category = DataCategory

(* C28: the status of every stored article is unread or read, its read_at  *)
(* is set exactly when its status is read, and no step takes an article    *)
(* from read to unread.                                                    *)
C28_StatusLifecycle ==
    [][/\ \A a \in articles' :
             /\ a.status \in {"unread", "read"}
             /\ (a.read_at # NullTs) <=> (a.status = "read")
       /\ \A a \in articles : \A b \in articles' :
             (a.id = b.id /\ a.status = "read") => b.status = "read"
      ]_vars

(* A read article was re-categorized and is still read. *)
C28_Witness ==
    /\ \E p \in Procs : Returned(p, "category") /\ ret[p].ok
    /\ \E a \in articles :
          /\ a.status = "read"
          /\ a.read_at # NullTs
          /\ a.category = DataCategory
    /\ \E a \in articles : a.status = "unread" /\ a.read_at = NullTs

(* The buckets are in descending order of the number of analysed hours in  *)
(* them, none is without an hour and none is listed twice.                 *)
BucketsRanked(times, hours) ==
    /\ \A i \in 1..Len(times) : Cardinality(HoursIn(hours, times[i])) > 0
    /\ \A i \in 1..Len(times) : \A j \in (i + 1)..Len(times) :
          /\ times[i] # times[j]
          /\ Cardinality(HoursIn(hours, times[i])) >= Cardinality(HoursIn(hours, times[j]))

(* C25, as claimed: the time-of-day buckets of every pattern returned are  *)
(* in descending order of the number of analysed read hours in them, none  *)
(* has zero hours and none is listed twice.                                *)
C25_BucketsRanked ==
    Analyzed =>
        \A hours \in {ReadHours} : BucketsRanked(Result.reading_times, hours)

(* C25, amended: the same for every pattern computed from at least one     *)
(* fetched read event; without one the default buckets are returned.       *)
C25_BucketsRankedOfReads ==
    Analyzed =>
        \A hours \in {ReadHours}, reads \in {FetchedReads} :
            IF reads # <<>> THEN BucketsRanked(Result.reading_times, hours)
            ELSE Result.reading_times = <<"morning", "evening">>

(* The bucket met second has more hours and is listed first. *)
C25_Witness ==
    /\ Analyzed
    /\ Len(Result.reading_times) >= 2
    /\ \E hours \in {ReadHours} :
          /\ Cardinality(HoursIn(hours, Result.reading_times[1]))
                > Cardinality(HoursIn(hours, Result.reading_times[2]))
          /\ ClaimedBucket(hours[1]) = Result.reading_times[2]

(* C29: every pattern returned has non-empty preferred_hours,              *)
(* preferred_days and reading_times, with hours in 0..23 and weekdays in   *)
(* 0..6, also when no read event has a timestamp that parses.              *)
C29_PatternListsNonEmpty ==
    Analyzed =>
        /\ Result.preferred_hours # <<>>
        /\ Result.preferred_days # <<>>
        /\ Result.reading_times # <<>>
        /\ \A i \in 1..Len(Result.preferred_hours) : Result.preferred_hours[i] \in 0..23
        /\ \A i \in 1..Len(Result.preferred_days) : Result.preferred_days[i] \in 0..6

(* C30: the entries of get_delivery_schedule are in strictly increasing    *)
(* order of delivery time, whatever the order of preferred_hours.          *)
C30_ScheduleInTimeOrder ==
    Replied("schedule") =>
        \A r \in {Answer} :
            \A i \in 1..Len(r.value) : \A j \in (i + 1)..Len(r.value) :
                LaterThan(r.value[j].delivery_time, r.value[i].delivery_time)

(* The categories an article of the store can carry. *)
StoredCategories == {Kinds[k].category : k \in 1..Len(Kinds)} \cup Categories \cup {None}

(* C27: within one prioritize_queue call every article is scored against  *)
(* the same statistics, whatever other callers write meanwhile: there is   *)
(* one top_category under which every score of the call was computed, and  *)
(* the returned order is the descending-score order under it.              *)
C27_OneTopCategoryPerCall ==
    Replied("prioritize") =>
        \E top \in StoredCategories :
            /\ \A i \in 1..Len(Answer.scored) :
                  Answer.scored[i].score =
                      calculate_priority_score(Answer.scored[i].article, clock, top)
            /\ \A i \in 1..Len(Answer.scored) : \A j \in 1..Len(Answer.scored) :
                  i < j => calculate_priority_score(Answer.scored[i].article, clock, top)
                             >= calculate_priority_score(Answer.scored[j].article, clock, top)

====
